---------------------------- MODULE Spec2Model ----------------------------
(***************************************************************************)
(* jpegoptim-py: the install-time pipeline of setup.py (resolve platform,  *)
(* download, verify SHA-256, extract, save executable) and the maintenance *)
(* tool scripts/bump_jpegoptim.py (regex rewrite of setup.py and README,   *)
(* commit, tag).                                                           *)
(*                                                                         *)
(* Text is modelled as sequences of one-character strings wherever the     *)
(* code inspects characters (str.startswith, the regular expressions, int  *)
(* parsing and formatting); opaque text compared only for equality is a    *)
(* TLA+ string.  An optional value (Python None) is a sequence of length   *)
(* 0, a present value x is <<x>>.                                          *)
(***************************************************************************)
EXTENDS Integers, Sequences, FiniteSets, TLC

VARIABLES
    \* ---- the files of the repository and the release server
    setup_py,     \* setup.py: JPEGOPTIM_VERSION, PY_VERSION, POSTFIX_SHA256 lines
    readme,       \* README.md: the text following "rev: v" on its line
    released,     \* which byte strings hash to the three checksums shipped in setup.py
    \* ---- fetch_binaries.run (setup.py)
    pc,           \* position of the current run
    key,          \* (sys.platform, platform.machine())
    url,          \* get_download_url()[0]
    sha256,       \* get_download_url()[1]
    resp,         \* resp.read() inside download
    archive,      \* value returned by download
    data,         \* value returned by extract
    err,          \* the exception that ended the run, "" if none
    steps,        \* functions entered by the current run, in order
    fs,           \* build_temp on disk: the directory and the file in it
    origin,       \* ghost: what the save_executable call that created the file was given
    runs,         \* number of runs started
    \* ---- scripts/bump_jpegoptim.py main()
    args,         \* argparse namespace of the last run
    sha_dict,     \* _get_sha_dict result of the last run (None in bump-minor mode)
    fetched,      \* download_url values requested by the last run
    result,       \* outcome of the last run: "", "ok" or the exception raised
    returned,     \* next_jpegoptim_py_version of the last completed run
    git,          \* last commit message and tag name
    noop          \* ghost: substitutions of the last completed run that matched nothing

fileVars  == <<setup_py, readme, released>>
fetchVars == <<pc, key, url, sha256, resp, archive, data, err, steps, fs, origin, runs>>
bumpVars  == <<args, sha_dict, fetched, result, returned, git, noop>>
vars      == <<setup_py, readme, released, pc, key, url, sha256, resp, archive, data,
               err, steps, fs, origin, runs, args, sha_dict, fetched, result,
               returned, git, noop>>

None == << >>
Some(x) == <<x>>

(***************************************************************************)
(* Bounds                                                                  *)
(***************************************************************************)
MaxRuns == 2
MaxEntries == 2

(***************************************************************************)
(* Text helpers                                                            *)
(***************************************************************************)
Digits == {"0", "1", "2", "3", "4", "5", "6", "7", "8", "9"}

DigitValue(c) ==
    CASE c = "0" -> 0 [] c = "1" -> 1 [] c = "2" -> 2 [] c = "3" -> 3 [] c = "4" -> 4
      [] c = "5" -> 5 [] c = "6" -> 6 [] c = "7" -> 7 [] c = "8" -> 8 [] c = "9" -> 9

DigitChar(d) ==
    CASE d = 0 -> "0" [] d = 1 -> "1" [] d = 2 -> "2" [] d = 3 -> "3" [] d = 4 -> "4"
      [] d = 5 -> "5" [] d = 6 -> "6" [] d = 7 -> "7" [] d = 8 -> "8" [] d = 9 -> "9"

\* int(s) for a string of decimal digits
RECURSIVE int(_)
int(s) ==
    IF Len(s) = 0 THEN 0
    ELSE 10 * int(SubSeq(s, 1, Len(s) - 1)) + DigitValue(s[Len(s)])

\* str(n) for n >= 0, as f"{n}" formats it
RECURSIVE str(_)
str(n) ==
    IF n < 10 THEN <<DigitChar(n)>>
    ELSE str(n \div 10) \o <<DigitChar(n % 10)>>

\* s.startswith(p)
startswith(s, p) == Len(s) >= Len(p) /\ SubSeq(s, 1, Len(p)) = p


(***************************************************************************)
(* setup.py: the packaging descriptor                                      *)
(***************************************************************************)
jpegoptim == <<"j", "p", "e", "g", "o", "p", "t", "i", "m">>
x64_linux_zip == <<"x", "6", "4", "-", "l", "i", "n", "u", "x", ".", "z", "i", "p">>
x64_macos_zip == <<"x", "6", "4", "-", "m", "a", "c", "o", "s", ".", "z", "i", "p">>
x64_windows_zip == <<"x", "6", "4", "-", "w", "i", "n", "d", "o", "w", "s", ".", "z", "i", "p">>

\* The text of setup.py as shipped: the two version lines and the three
\* (postfix, checksum) pairs of the POSTFIX_SHA256 literal, in file order.
ShippedSetupPy ==
    [ JPEGOPTIM_VERSION |-> <<"1", ".", "5", ".", "4">>,
      PY_VERSION |-> <<"1">>,
      entries |-> <<
        [ key |-> <<"linux", "x86_64">>, postfix |-> x64_linux_zip,
          sha256 |-> "75f6975454bc33cce5ff46fd13809c010bec0f2c43de26a7e3b92cc6ece85bb4" ],
        [ key |-> <<"darwin", "x86_64">>, postfix |-> x64_macos_zip,
          sha256 |-> "6a170a50fe0d5aa01636d64ae7647ac615867c184f2fb4ead557c284005deae8" ],
        [ key |-> <<"win32", "AMD64">>, postfix |-> x64_windows_zip,
          sha256 |-> "70d9a26b3bd9c4331d10c03f7431afa8eecef0b1d6ceef30455f70433a3c3311" ] >> ]

\* README.md as shipped: the reference "rev: v1.5.4.1" to the shipped version.
ShippedReadmeRev == <<"1", ".", "5", ".", "4", ".", "1">>

\* POSTFIX_SHA256 as the module holds it after import: the literal's three
\* keys, and ("darwin", "arm64") bound to the ("darwin", "x86_64") value.
POSTFIX_SHA256(setup) ==
    LET lit == { setup.entries[i].key : i \in DOMAIN setup.entries }
        value(k) == LET i == CHOOSE i \in DOMAIN setup.entries : setup.entries[i].key = k
                    IN  [postfix |-> setup.entries[i].postfix,
                         sha256 |-> setup.entries[i].sha256]
        keys == lit \cup {<<"darwin", "arm64">>}
    IN  [ k \in keys |-> IF k = <<"darwin", "arm64">> /\ k \notin lit
                         THEN value(<<"darwin", "x86_64">>)
                         ELSE value(k) ]

\* Values (sys.platform, platform.machine()) can take; the last is a host
\* the table has no entry for.
PlatformKeys ==
    { <<"linux", "x86_64">>, <<"darwin", "x86_64">>, <<"darwin", "arm64">>,
      <<"win32", "AMD64">>, <<"linux", "aarch64">> }

\* The f-string of get_download_url: literal pieces and the interpolated
\* version and postfix, concatenated.
get_download_url(setup, k) ==
    IF k \notin DOMAIN POSTFIX_SHA256(setup)
    THEN [err |-> "KeyError", url |-> None, sha256 |-> None]
    ELSE LET e == POSTFIX_SHA256(setup)[k]
         IN  [err |-> "",
              url |-> Some(<<"https://github.com/UnknownPlatypus/jpegoptim/releases/download/", "v">>
                           \o setup.JPEGOPTIM_VERSION \o <<"/jpegoptim-">>
                           \o setup.JPEGOPTIM_VERSION \o <<"-">> \o e.postfix),
              sha256 |-> Some(e.sha256)]

(***************************************************************************)
(* Byte strings a release server can answer with.  A byte string is        *)
(* modelled by its zip central directory: the ordered entries (filename,   *)
(* content).                                                               *)
(***************************************************************************)
README_txt == <<"R", "E", "A", "D", "M", "E">>
jpegoptim_exe == jpegoptim \o <<".", "e", "x", "e">>

ZipTool == << [filename |-> jpegoptim, data |-> <<1, 2>>] >>
ZipExe == << [filename |-> README_txt, data |-> <<3>>],
             [filename |-> jpegoptim_exe, data |-> <<1, 2>>] >>
ZipNoTool == << [filename |-> README_txt, data |-> <<3>>] >>
ZipTwice == << [filename |-> jpegoptim, data |-> <<1, 2>>],
               [filename |-> jpegoptim, data |-> <<3>>] >>

Bodies == {ZipTool, ZipExe, ZipNoTool, ZipTwice}

Postfixes == {x64_linux_zip, x64_macos_zip, x64_windows_zip}

\* The byte strings whose SHA-256 are the three shipped checksums are not
\* known; any assignment of distinct byte strings is possible.
Releases == { f \in [Postfixes -> Bodies] : \A p, q \in Postfixes : f[p] = f[q] => p = q }

ShippedSha(p) ==
    LET i == CHOOSE i \in DOMAIN ShippedSetupPy.entries : ShippedSetupPy.entries[i].postfix = p
    IN  ShippedSetupPy.entries[i].sha256

\* hashlib.sha256(data).hexdigest(): lowercase hex, one digest per byte string.
sha256hex(bytes) ==
    IF \E p \in Postfixes : released[p] = bytes
    THEN ShippedSha(CHOOSE p \in Postfixes : released[p] = bytes)
    ELSE CASE bytes = ZipTool   -> "a3c1f0d27b9e4c55a0e6b1d48f23c7aa90b1e2d3c4f5a6b7c8d9e0f1a2b3c4d5"
           [] bytes = ZipExe    -> "b4d2e1c38caf5d66b1f7c2e59a34d8bba1c2f3e4d5a6b7c8d9e0f1a2b3c4d5e6"
           [] bytes = ZipNoTool -> "c5e3f2d49db06e77c2a8d3f6ab45e9ccb2d3a4f5e6b7c8d9e0f1a2b3c4d5e6f7"
           [] bytes = ZipTwice  -> "d6f4a3e5aec17f88d3b9e4a7bc56faddc3e4b5a6f7c8d9e0f1a2b3c4d5e6f7a8"


(***************************************************************************)
(* setup.py: download, extract, save_executable                            *)
(***************************************************************************)
\* http.HTTPStatus.OK, and the statuses a release server answers with.
HTTP_OK == 200
HttpCodes == {HTTP_OK, 404}

\* A variant of download that returns the bytes without comparing digests.
download_unchecked(code, body, expected) ==
    IF code # HTTP_OK
    THEN [err |-> "HTTP failure", read |-> None, data |-> None]
    ELSE [err |-> "", read |-> Some(body), data |-> Some(body)]

\* download(url, sha256): code and body are the server's answer for url.
download(code, body, expected) ==
    IF code # HTTP_OK
    THEN [err |-> "HTTP failure", read |-> None, data |-> None]
    ELSE LET checksum == sha256hex(body)
         IN  IF checksum # expected
             THEN [err |-> "sha256 mismatch", read |-> Some(body), data |-> None]
             ELSE [err |-> "", read |-> Some(body), data |-> Some(body)]

\* ZipFile.read(name): getinfo(name) looks the name up in NameToInfo, which
\* the central directory fills in order, a later entry replacing an earlier
\* one of the same name.
ZipRead(zipf, name) ==
    LET last == CHOOSE j \in DOMAIN zipf :
                    /\ zipf[j].filename = name
                    /\ \A m \in DOMAIN zipf : zipf[m].filename = name => m <= j
    IN  zipf[last].data

\* extract(url, data): the loop over zipf.infolist() returns at the first
\* entry whose filename starts with "jpegoptim".
extract(zipf) ==
    LET hits == { i \in DOMAIN zipf : startswith(zipf[i].filename, jpegoptim) }
    IN  IF hits = {}
        THEN [err |-> "AssertionError unreachable", data |-> None]
        ELSE LET info == zipf[CHOOSE i \in hits : \A j \in hits : i <= j]
             IN  [err |-> "", data |-> Some(ZipRead(zipf, info.filename))]

\* Permission bits.
S_IX == {"S_IXUSR", "S_IXGRP", "S_IXOTH"}
Mode666 == {"S_IRUSR", "S_IWUSR", "S_IRGRP", "S_IWGRP", "S_IROTH", "S_IWOTH"}
\* Process umasks: 022 and 077.
Umasks == { {"S_IWGRP", "S_IWOTH"},
            {"S_IRGRP", "S_IWGRP", "S_IXGRP", "S_IROTH", "S_IWOTH", "S_IXOTH"} }

\* Where a filesystem call of save_executable can raise OSError.
Faults == {"none", "makedirs", "open", "write", "stat", "chmod"}

EmptyFs == [dir |-> FALSE, file |-> None]

exe_name(k) == IF k[1] # "win32" THEN jpegoptim ELSE jpegoptim_exe

\* A variant of save_executable that calls os.makedirs(base_dir, exist_ok=True).
save_executable_exist_ok(disk, bytes, k, fault, n, umask) ==
    LET created == [name |-> exe_name(k), content |-> << >>, mode |-> Mode666 \ umask]
        written == [created EXCEPT !.content = bytes]
    IN  IF fault = "makedirs"
        THEN [err |-> "OSError makedirs", fs |-> disk]
        ELSE IF fault = "open"
        THEN [err |-> "OSError open", fs |-> [disk EXCEPT !.dir = TRUE]]
        ELSE IF fault = "write"
        THEN [err |-> "OSError write",
              fs |-> [dir |-> TRUE,
                      file |-> Some([created EXCEPT !.content = SubSeq(bytes, 1, n)])]]
        ELSE IF fault \in {"stat", "chmod"}
        THEN [err |-> "OSError " \o fault, fs |-> [dir |-> TRUE, file |-> Some(written)]]
        ELSE [err |-> "",
              fs |-> [dir |-> TRUE,
                      file |-> Some([written EXCEPT !.mode = written.mode \cup S_IX])]]

\* A variant of save_executable that sets the execute bits right after
\* opening the file, before the bytes are written.
save_executable_chmod_first(disk, bytes, k, fault, n, umask) ==
    LET created == [name |-> exe_name(k), content |-> << >>, mode |-> Mode666 \ umask]
        marked == [created EXCEPT !.mode = created.mode \cup S_IX]
    IN  IF disk.dir
        THEN [err |-> "FileExistsError", fs |-> disk]
        ELSE IF fault = "makedirs"
        THEN [err |-> "OSError makedirs", fs |-> disk]
        ELSE IF fault = "open"
        THEN [err |-> "OSError open", fs |-> [disk EXCEPT !.dir = TRUE]]
        ELSE IF fault \in {"stat", "chmod"}
        THEN [err |-> "OSError " \o fault, fs |-> [dir |-> TRUE, file |-> Some(created)]]
        ELSE IF fault = "write"
        THEN [err |-> "OSError write",
              fs |-> [dir |-> TRUE,
                      file |-> Some([marked EXCEPT !.content = SubSeq(bytes, 1, n)])]]
        ELSE [err |-> "",
              fs |-> [dir |-> TRUE, file |-> Some([marked EXCEPT !.content = bytes])]]

\* save_executable(data, base_dir) on the directory state disk.  fault names
\* the filesystem call that raises (none: all succeed), n the number of bytes
\* on disk when a write raises, umask the process umask.
\*   os.makedirs(base_dir)       raises FileExistsError if base_dir exists
\*   open(output_path, "wb")     creates the file with mode 0666 & ~umask
\*   fp.write(data)
\*   os.stat(...); mode |= S_IXUSR | S_IXGRP | S_IXOTH; os.chmod(...)
save_executable(disk, bytes, k, fault, n, umask) ==
    LET created == [name |-> exe_name(k), content |-> << >>, mode |-> Mode666 \ umask]
        written == [created EXCEPT !.content = bytes]
    IN  IF disk.dir
        THEN [err |-> "FileExistsError", fs |-> disk]
        ELSE IF fault = "makedirs"
        THEN [err |-> "OSError makedirs", fs |-> disk]
        ELSE IF fault = "open"
        THEN [err |-> "OSError open", fs |-> [disk EXCEPT !.dir = TRUE]]
        ELSE IF fault = "write"
        THEN [err |-> "OSError write",
              fs |-> [dir |-> TRUE,
                      file |-> Some([created EXCEPT !.content = SubSeq(bytes, 1, n)])]]
        ELSE IF fault \in {"stat", "chmod"}
        THEN [err |-> "OSError " \o fault, fs |-> [dir |-> TRUE, file |-> Some(written)]]
        ELSE [err |-> "",
              fs |-> [dir |-> TRUE,
                      file |-> Some([written EXCEPT !.mode = written.mode \cup S_IX])]]

(***************************************************************************)
(* fetch_binaries.run: one action per call it makes                        *)
(***************************************************************************)
IdleBump ==
    /\ args = None /\ sha_dict = None /\ fetched = << >> /\ result = ""
    /\ returned = None /\ git = None /\ noop = {}

IdleFetch ==
    /\ pc = "start" /\ key = None /\ url = None /\ sha256 = None /\ resp = None
    /\ archive = None /\ data = None /\ err = "" /\ steps = << >>
    /\ fs = EmptyFs /\ origin = None /\ runs = 1

InitFetch ==
    /\ setup_py = ShippedSetupPy
    /\ readme = ShippedReadmeRev
    /\ released \in Releases
    /\ IdleFetch
    /\ IdleBump

\* url, sha256 = get_download_url()
GetDownloadUrl ==
    /\ pc = "start"
    /\ \E k \in PlatformKeys :
         LET r == get_download_url(setup_py, k)
         IN  /\ key' = Some(k)
             /\ url' = r.url
             /\ sha256' = r.sha256
             /\ err' = r.err
             /\ pc' = IF r.err = "" THEN "download" ELSE "failed"
    /\ steps' = Append(steps, "get_download_url")
    /\ UNCHANGED <<resp, archive, data, fs, origin, runs>>
    /\ UNCHANGED <<fileVars, bumpVars>>

\* archive = download(url, sha256)
Download ==
    /\ pc = "download"
    /\ \E code \in HttpCodes, body \in Bodies :
         LET r == download(code, body, sha256[1])
         IN  /\ resp' = r.read
             /\ archive' = r.data
             /\ err' = r.err
             /\ pc' = IF r.err = "" THEN "extract" ELSE "failed"
    /\ steps' = Append(steps, "download")
    /\ UNCHANGED <<key, url, sha256, data, fs, origin, runs>>
    /\ UNCHANGED <<fileVars, bumpVars>>

\* data = extract(url, archive)
Extract ==
    /\ pc = "extract"
    /\ LET r == extract(archive[1])
       IN  /\ data' = r.data
           /\ err' = r.err
           /\ pc' = IF r.err = "" THEN "save" ELSE "failed"
    /\ steps' = Append(steps, "extract")
    /\ UNCHANGED <<key, url, sha256, resp, archive, fs, origin, runs>>
    /\ UNCHANGED <<fileVars, bumpVars>>

\* save_executable(data, self.build_temp)
SaveExecutable ==
    /\ pc = "save"
    /\ \E fault \in Faults, n \in 0..Len(data[1]), umask \in Umasks :
         LET r == save_executable(fs, data[1], key[1], fault, n, umask)
         IN  /\ fs' = r.fs
             /\ err' = r.err
             /\ pc' = IF r.err = "" THEN "done" ELSE "failed"
             /\ origin' = IF r.fs.file # fs.file
                          THEN Some([data |-> data[1], archive |-> archive[1],
                                     sha256 |-> sha256[1], key |-> key[1]])
                          ELSE origin
    /\ steps' = Append(steps, "save_executable")
    /\ UNCHANGED <<key, url, sha256, resp, archive, data, runs>>
    /\ UNCHANGED <<fileVars, bumpVars>>

\* The build is invoked again with the same build_temp.
NewRun ==
    /\ pc \in {"done", "failed"}
    /\ runs < MaxRuns
    /\ runs' = runs + 1
    /\ pc' = "start" /\ key' = None /\ url' = None /\ sha256' = None /\ resp' = None
    /\ archive' = None /\ data' = None /\ err' = "" /\ steps' = << >>
    /\ UNCHANGED <<fs, origin>>
    /\ UNCHANGED <<fileVars, bumpVars>>

NextFetch == GetDownloadUrl \/ Download \/ Extract \/ SaveExecutable \/ NewRun

SpecFetch == InitFetch /\ [][NextFetch]_vars


(***************************************************************************)
(* Properties of fetch_binaries.run                                        *)
(***************************************************************************)
Pipeline == <<"get_download_url", "download", "extract", "save_executable">>

Entered(step) == \E i \in DOMAIN steps : steps[i] = step

\* The function that raises each error.
RaisedBy(e) ==
    CASE e = "KeyError" -> "get_download_url"
      [] e \in {"HTTP failure", "sha256 mismatch"} -> "download"
      [] e = "AssertionError unreachable" -> "extract"
      [] OTHER -> "save_executable"

\* The file in build_temp holds every byte save_executable was given.
Complete == fs.file[1].content = origin[1].data

\* The file's bytes are the entry extracted from an archive whose digest
\* equals the checksum recorded for the platform of the run that wrote it.
Verified ==
    /\ sha256hex(origin[1].archive) = POSTFIX_SHA256(setup_py)[origin[1].key].sha256
    /\ extract(origin[1].archive).data = Some(origin[1].data)

\* C1: extract and save_executable are entered only after the SHA-256 hex
\* digest of the bytes read has been found equal to the checksum recorded for
\* the resolved platform; when the digest differs the run has failed in
\* download with the sha256 mismatch error and neither was entered.
C1_VerifyBeforeExtract ==
    /\ (Entered("extract") \/ Entered("save_executable")) =>
          /\ resp # None
          /\ archive = resp
          /\ sha256hex(resp[1]) = POSTFIX_SHA256(setup_py)[key[1]].sha256
    /\ (resp # None /\ sha256hex(resp[1]) # sha256[1]) =>
          /\ err = "sha256 mismatch"
          /\ pc = "failed"
          /\ steps = <<"get_download_url", "download">>

\* C1 witness: a first run verified and installed, a second run read bytes
\* with another digest.
C1_Witness ==
    /\ runs = 2
    /\ err = "sha256 mismatch"
    /\ fs.file # None
    /\ S_IX \subseteq fs.file[1].mode

\* A run enters the functions in pipeline order, each at most once, and a
\* failed run stopped in the function that raised.
AbortsAtFailingStep ==
    /\ Len(steps) <= Len(Pipeline)
    /\ steps = SubSeq(Pipeline, 1, Len(steps))
    /\ pc = "failed" => (err # "" /\ steps # << >> /\ steps[Len(steps)] = RaisedBy(err))
    /\ err # "" => pc = "failed"

C7_ExistingDirUntouched ==
    [][fs.dir => (/\ fs' = fs
                  /\ pc' # "done"
                  /\ (pc = "save" => (pc' = "failed" /\ err' = "FileExistsError")))]_vars

\* C7 witness: the second run failed in save_executable on the directory the
\* first run created, the first run's executable still in place.
C7_Witness ==
    /\ runs = 2
    /\ err = "FileExistsError"
    /\ fs.file # None
    /\ Complete
    /\ S_IX \subseteq fs.file[1].mode


(***************************************************************************)
(* extract on every archive of up to MaxEntries entries                    *)
(***************************************************************************)
jpeg == <<"j", "p", "e", "g">>
FileNames == {jpegoptim, jpegoptim_exe, README_txt, jpeg}
Contents == {<<1, 2>>, <<3>>}
ZipEntries == [filename : FileNames, data : Contents]
Archives == UNION { [1..n -> ZipEntries] : n \in 0..MaxEntries }

InitExtract ==
    /\ setup_py = ShippedSetupPy
    /\ readme = ShippedReadmeRev
    /\ released = CHOOSE f \in Releases : TRUE
    /\ pc = "extract" /\ key = None /\ url = None /\ sha256 = None /\ resp = None
    /\ \E zipf \in Archives : archive = Some(zipf)
    /\ data = None /\ err = "" /\ steps = << >>
    /\ fs = EmptyFs /\ origin = None /\ runs = 1
    /\ IdleBump

SpecExtract == InitExtract /\ [][Extract]_vars

\* The first entry, in archive order, whose name starts with "jpegoptim".
FirstMatch(zipf) ==
    LET hits == { i \in DOMAIN zipf : startswith(zipf[i].filename, jpegoptim) }
    IN  IF hits = {} THEN None ELSE Some(zipf[CHOOSE i \in hits : \A j \in hits : i <= j])

\* C8 as claimed: extract returns exactly the content of the first entry
\* whose name starts with "jpegoptim"; with no such entry it raises the
\* unreachable error and returns nothing.
C8_AsClaimed ==
    Entered("extract") =>
        IF FirstMatch(archive[1]) = None
        THEN err = "AssertionError unreachable" /\ data = None
        ELSE err = "" /\ data = Some(FirstMatch(archive[1])[1].data)


(***************************************************************************)
(* scripts/bump_jpegoptim.py: the regular expressions                      *)
(***************************************************************************)
IsDigits(s) == Len(s) >= 1 /\ \A i \in DOMAIN s : s[i] \in Digits

\* re.search(_PY_VERSION_RE, content): PY_VERSION = "(\d)" matches the
\* PY_VERSION line when exactly one digit stands between the quotes; the
\* result is group 1, None without a match.
PY_VERSION_search(content) ==
    IF Len(content.PY_VERSION) = 1 /\ content.PY_VERSION[1] \in Digits
    THEN Some(content.PY_VERSION)
    ELSE None

\* re.search(_JPEGOPTIM_VERSION_RE, content): JPEGOPTIM_VERSION =
\* "(\d+\.\d+\.\d+)" matches when digits, a dot, digits, a dot and digits
\* stand between the quotes.
JPEGOPTIM_VERSION_search(content) ==
    LET v == content.JPEGOPTIM_VERSION
    IN  IF \E i, j \in DOMAIN v :
              /\ i < j /\ v[i] = "." /\ v[j] = "."
              /\ IsDigits(SubSeq(v, 1, i - 1))
              /\ IsDigits(SubSeq(v, i + 1, j - 1))
              /\ IsDigits(SubSeq(v, j + 1, Len(v)))
        THEN Some(v)
        ELSE None

\* The pattern text pat, read as a regular expression ("." matches any
\* character, the other characters of a postfix match themselves), matches
\* the end of text; the pattern continues with the closing quote.
MatchesAtEnd(pat, text) ==
    /\ Len(text) >= Len(pat)
    /\ \A i \in DOMAIN pat : pat[i] = "." \/ pat[i] = text[Len(text) - Len(pat) + i]

\* re.sub(rf'{postfix}",(\n\s*)".*"', rf'{postfix}",\1"{sha}"', content): in
\* every entry whose suffix literal ends in a match of postfix, the matched
\* text is replaced by postfix itself and the checksum literal on the next
\* line by sha.
sha_sub(postfix, sha, content) ==
    [content EXCEPT !.entries =
        [ i \in DOMAIN content.entries |->
            LET e == content.entries[i]
            IN  IF MatchesAtEnd(postfix, e.postfix)
                THEN [e EXCEPT !.postfix = SubSeq(e.postfix, 1, Len(e.postfix) - Len(postfix))
                                           \o postfix,
                               !.sha256 = sha]
                ELSE e ]]

sha_matches(postfix, content) ==
    \E i \in DOMAIN content.entries : MatchesAtEnd(postfix, content.entries[i].postfix)

\* re.sub(r"rev: v\d.\d.\d.(\d)", rf"rev: v{next}", content) on the README:
\* text is what follows "rev: v" on its line.  The pattern takes a digit,
\* any character, a digit, any character, a digit, any character and a
\* digit; what follows the match stays.
readme_sub(next, text) ==
    IF /\ Len(text) >= 7
       /\ \A i \in {1, 3, 5, 7} : text[i] \in Digits
    THEN next \o SubSeq(text, 8, Len(text))
    ELSE text

(***************************************************************************)
(* scripts/bump_jpegoptim.py: _get_sha_dict, _update_setup_py_file, main   *)
(***************************************************************************)
x64_osx_zip == <<"x", "6", "4", "-", "o", "s", "x", ".", "z", "i", "p">>

\* The suffix list of _get_sha_dict, in order.
BumpSuffixes == <<x64_linux_zip, x64_osx_zip, x64_windows_zip>>

download_url(target_version, suffix) ==
    <<"https://github.com/tjko/jpegoptim/releases/download/", "v">>
        \o target_version \o <<"/jpegoptim-">> \o target_version \o <<"-">> \o suffix

\* _get_sha_dict(target_version): served[i] is r.data for the i-th suffix
\* (the status of the response is not looked at).  The dict is the sequence
\* of its items in insertion order.
get_sha_dict(target_version, served) ==
    [ urls |-> [ i \in DOMAIN BumpSuffixes |-> download_url(target_version, BumpSuffixes[i]) ],
      sha_dict |-> [ i \in DOMAIN BumpSuffixes |->
                       [suffix |-> BumpSuffixes[i], sha |-> sha256hex(served[i])] ] ]

\* for postfix, sha in sha_dict.items(): content = re.sub(...)
RECURSIVE sha_subs(_, _)
sha_subs(items, content) ==
    IF items = << >> THEN content
    ELSE sha_subs(Tail(items), sha_sub(Head(items).suffix, Head(items).sha, content))

\* A variant of _update_setup_py_file with the condition on args.bump_minor
\* inverted.
update_setup_py_file_inverted(content, a, shas) ==
    LET current_py_version == PY_VERSION_search(content)
    IN  IF current_py_version = None
        THEN [err |-> "TypeError", content |-> content, returned |-> None, noop |-> {}]
        ELSE
        LET next_py_version == IF ~a.bump_minor THEN int(current_py_version[1]) + 1 ELSE 1
            content1 == [content EXCEPT !.PY_VERSION = str(next_py_version)]
            found == JPEGOPTIM_VERSION_search(content1)
        IN  IF found = None
            THEN [err |-> "TypeError", content |-> content, returned |-> None, noop |-> {}]
            ELSE
            LET next_jpegoptim_version == IF shas # None THEN a.target_version[1] ELSE found[1]
                content2 == IF shas # None
                            THEN sha_subs(shas[1], [content1 EXCEPT
                                     !.JPEGOPTIM_VERSION = next_jpegoptim_version])
                            ELSE content1
            IN  [err |-> "",
                 content |-> content2,
                 returned |-> Some(next_jpegoptim_version \o <<".">> \o str(next_py_version)),
                 noop |-> {}]

\* _update_setup_py_file(args, sha_dict) on the text content of setup.py:
\* the text written back, the string returned, and the substitutions that
\* matched nothing.  A failed re.search makes the subscript [1] raise
\* TypeError before anything is written.
update_setup_py_file(content, a, shas) ==
    LET current_py_version == PY_VERSION_search(content)
    IN  IF current_py_version = None
        THEN [err |-> "TypeError", content |-> content, returned |-> None, noop |-> {}]
        ELSE
        LET next_py_version == IF a.bump_minor THEN int(current_py_version[1]) + 1 ELSE 1
            content1 == [content EXCEPT !.PY_VERSION = str(next_py_version)]
            found == JPEGOPTIM_VERSION_search(content1)
        IN  IF found = None
            THEN [err |-> "TypeError", content |-> content, returned |-> None, noop |-> {}]
            ELSE
            LET next_jpegoptim_version == IF shas # None THEN a.target_version[1] ELSE found[1]
                content2 == IF shas # None
                            THEN sha_subs(shas[1], [content1 EXCEPT
                                     !.JPEGOPTIM_VERSION = next_jpegoptim_version])
                            ELSE content1
            IN  [err |-> "",
                 content |-> content2,
                 returned |-> Some(next_jpegoptim_version \o <<".">> \o str(next_py_version)),
                 noop |-> IF shas = None THEN {}
                          ELSE { shas[1][i].suffix : i \in
                                   { n \in DOMAIN shas[1] :
                                       ~sha_matches(shas[1][n].suffix, content1) } }]

\* Versions given to --target-version.
TargetVersions ==
    { <<"1", ".", "5", ".", "5">>, <<"1", ".", "5", ".", "6">>,
      <<"1", ".", "5", ".", "1", "0">> }

InitBump ==
    /\ setup_py = ShippedSetupPy
    /\ readme = ShippedReadmeRev
    /\ released = [p \in Postfixes |->
                     CASE p = x64_linux_zip -> ZipTool
                       [] p = x64_macos_zip -> ZipTwice
                       [] p = x64_windows_zip -> ZipExe]
    /\ IdleFetch
    /\ IdleBump

\* main(argv) from parse_args to return 0, for the parsed arguments a and,
\* in target-version mode, the bodies served for the three downloads.
Main(a, served) ==
    LET got == IF ~a.bump_minor
               THEN get_sha_dict(a.target_version[1], served)
               ELSE [urls |-> << >>, sha_dict |-> << >>]
        shas == IF ~a.bump_minor THEN Some(got.sha_dict) ELSE None
        r == update_setup_py_file(setup_py, a, shas)
    IN  /\ args' = Some(a)
        /\ fetched' = got.urls
        /\ sha_dict' = shas
        /\ noop' = r.noop
        /\ returned' = r.returned
        /\ IF r.err # ""
           THEN /\ result' = r.err
                /\ UNCHANGED <<setup_py, readme, git>>
           ELSE /\ result' = "ok"
                /\ setup_py' = r.content
                /\ readme' = readme_sub(r.returned[1], readme)
                /\ git' = Some([commit |-> <<"Bump jpegoptim-py to v">> \o r.returned[1],
                                tag |-> <<"v">> \o r.returned[1]])

\* Bodies the release server answers the tool's requests with.
Served == {ZipTool, ZipNoTool}

\* python bump_jpegoptim.py --bump-minor
BumpMinor ==
    /\ Main([bump_minor |-> TRUE, target_version |-> None], << >>)
    /\ UNCHANGED <<released, fetchVars>>

\* python bump_jpegoptim.py --target-version V
TargetVersion ==
    /\ \E V \in TargetVersions, served \in [DOMAIN BumpSuffixes -> Served] :
         Main([bump_minor |-> FALSE, target_version |-> Some(V)], served)
    /\ UNCHANGED <<released, fetchVars>>

NextBump == BumpMinor \/ TargetVersion

SpecBump == InitBump /\ [][NextBump]_vars


(***************************************************************************)
(* Properties of the bump tool                                             *)
(***************************************************************************)
Completed == result = "ok"
TargetMode == args # None /\ ~args[1].bump_minor
MinorMode == args # None /\ args[1].bump_minor

\* v<pinned version>.<wrapper version> as setup.py now records them, without
\* the leading "v".
Combined(setup) == setup.JPEGOPTIM_VERSION \o <<".">> \o setup.PY_VERSION

\* C3 as claimed: after a target-version run with version V the pinned
\* version is V, the wrapper version is "1", the checksum of each of the
\* three platform entries (Linux, macOS, Windows, in the order of the tool's
\* suffix list) is the SHA-256 of the archive the run downloaded for that
\* platform, and the run returned "V.1".
C3_AsClaimed ==
    (Completed /\ TargetMode) =>
        /\ setup_py.JPEGOPTIM_VERSION = args[1].target_version[1]
        /\ setup_py.PY_VERSION = <<"1">>
        /\ \A i \in DOMAIN setup_py.entries : setup_py.entries[i].sha256 = sha_dict[1][i].sha
        /\ returned = Some(args[1].target_version[1] \o <<".", "1">>)

C5_AsClaimed ==
    Completed =>
        /\ readme = Combined(setup_py)
        /\ git = Some([commit |-> <<"Bump jpegoptim-py to v">> \o Combined(setup_py),
                       tag |-> <<"v">> \o Combined(setup_py)])

\* C6 as claimed: no run completes in which one of the substitutions it
\* intended (pinned version, wrapper version, the checksum after each suffix
\* of the tool's list) matched nothing.
C6_AsClaimed == Completed => noop = {}

\* C9 as claimed: after a target-version run, for every platform of the
\* table the URL get_download_url builds from the rewritten setup.py is one of
\* the URLs the run downloaded and hashed.
C9_AsClaimed ==
    (Completed /\ TargetMode) =>
        \A k \in DOMAIN POSTFIX_SHA256(setup_py) :
            \E i \in DOMAIN fetched : get_download_url(setup_py, k).url = Some(fetched[i])

\* C10 as claimed: after any sequence of completed runs setup.py still
\* matches the pinned-version and the wrapper-version pattern, and no run
\* fails at the pattern lookup.
C10_AsClaimed ==
    /\ PY_VERSION_search(setup_py) # None
    /\ JPEGOPTIM_VERSION_search(setup_py) # None
    /\ result # "TypeError"

==========================================================================
